---------------------------- MODULE Spec2Model ----------------------------
(***************************************************************************)
(* Model of pepr3d's text rasterizer (src/geometry/FontRasterizer.cpp) and *)
(* of its application object (src/ui/MainApplication.cpp): the loading and *)
(* saving of geometry through the thread pool, and the skipping of draw    *)
(* while the window is out of sight.  Three specifications share the       *)
(* state: Spec runs the rasterizer, AppSpec (AppFairSpec with fairness)    *)
(* runs the loading and saving, WindowSpec runs the window events; each    *)
(* leaves the variables of the other parts as they start.                  *)
(*                                                                         *)
(* rasterizeText walks the input string, calls addOneCharacter once per    *)
(* character and finally normalises the y-axis with outlinePostprocess.    *)
(* addOneCharacter keeps three function-local statics (prevCharIndex,      *)
(* curCharIndex, prev_rsb_delta) that survive from one call of             *)
(* rasterizeText to the next.                                              *)
(*                                                                         *)
(* Units.  FreeType hands out 26.6 fixed point numbers (1/64 unit).  The   *)
(* code divides contour coordinates by 64.0f and adds the cursor, which is *)
(* a whole number of units (advance.x >> 6, kerning.x >> 6, +-1).  To keep *)
(* the arithmetic exact over the integers, vertex coordinates are held     *)
(* here in 1/64 units: x = px + 64 * offset, y = -py.  The cursor itself   *)
(* (offset) is held in whole units, as in the code.                        *)
(***************************************************************************)
EXTENDS Integers, Sequences, FiniteSets

(***************************************************************************)
(* Bounds of the model.                                                    *)
(***************************************************************************)
\* the longest string handed to rasterizeText
MaxLen == 2

\* the largest value std::thread::hardware_concurrency() returns
MaxCores == 4

\* the number of user requests (openFile, fileDrop, saveFile) in a run
MaxEvents == 4

(***************************************************************************)
(* Program constants.                                                      *)
(***************************************************************************)
\* std::numeric_limits<float>::max(): the start value of the minimum scan.
\* It stands above every coordinate of the model.
FLT_MAX == 2147483647

\* the argument of exit() on the "Invalid Glyph Format" path
EXIT_STATUS == 0

\* prev_rsb_delta - lsb_delta >= 32 and < -32: the two comparisons of the
\* hinting correction
HINT_THRESHOLD == 32

\* a null std::shared_ptr<Geometry>; geometries are numbered from 1
nullptr == 0

\* the fewest entries std::max<size_t>(3, hardware_concurrency()) lets through
MIN_CONCURRENCY == 3

\* update() looks at the window every 48th frame while draw is not skipped
\* and every 4th frame while it is
CHECK_PERIOD == 48

CHECK_PERIOD_SKIPPING == 4

(***************************************************************************)
(* The font face (FT_Face), as FreeType presents it after                  *)
(* FT_Set_Char_Size.  The font is an input of the rasterizer; the face     *)
(* below is a small one whose glyphs cover the cases of the layout code:   *)
(*   "A"  an outline with a hole, above the baseline (glyph 1)             *)
(*   "_"  an outline wholly below the baseline (glyph 2)                   *)
(*   " "  a blank glyph: no contour, only an advance (glyph 3)             *)
(*   "#"  a glyph the face only has as a bitmap (glyph 4)                  *)
(*   "!"  a glyph whose data cannot be loaded: FT_Load_Glyph fails (5)     *)
(*   "?"  a character the face does not map: FT_Get_Char_Index gives 0,    *)
(*        the ".notdef" glyph, a box                                       *)
(*   "@"  an outline with an island in its hole (glyph 6), as a target or  *)
(*        an enclosure has: the outer ring (contour 2) with its hole       *)
(*        (contour 4), inside that hole the island (contour 3) with its    *)
(*        own hole (contour 1), which so lies inside both outer contours;  *)
(*        and a hole-direction contour (contour 5) inside no contour       *)
(*   "."  an outline with degenerate contours (glyph 7): a two-point       *)
(*        contour of outer direction (contour 1), a triangle (contour 2)   *)
(*        and a two-point contour of hole direction inside the triangle    *)
(* Contour points, advance and kerning are in 1/64 units.  A contour's     *)
(* direction is Contour::GetDirection(); inside holds the pairs <<cm, c>>  *)
(* for which contour cm IsInside contour c.  In "A" the hole comes first:  *)
(* the order of the contours depends on the font.                          *)
(***************************************************************************)
Chars == {"A", "_", " ", "#", "!", "?", "@", "."}

Pt(px, py) == [x |-> px, y |-> py]

ClearedSlot ==
    [format |-> "none", contours |-> <<>>, inside |-> {},
     advance |-> 0, lsb_delta |-> 0, rsb_delta |-> 0]

Glyphs ==
    [g \in 0..7 |->
       CASE g = 0 ->
              [format |-> "outline",
               contours |-> << [points |-> <<Pt(0, 0), Pt(64, 0), Pt(64, 128), Pt(0, 128)>>,
                                direction |-> TRUE] >>,
               inside |-> {},
               advance |-> 150, lsb_delta |-> 32, rsb_delta |-> 31]
         [] g = 1 ->
              [format |-> "outline",
               contours |-> << [points |-> <<Pt(48, 32), Pt(80, 32), Pt(64, 64)>>,
                                direction |-> FALSE],
                               [points |-> <<Pt(0, 0), Pt(128, 0), Pt(64, 192)>>,
                                direction |-> TRUE] >>,
               inside |-> {<<1, 2>>},
               advance |-> 192, lsb_delta |-> 0, rsb_delta |-> 32]
         [] g = 2 ->
              [format |-> "outline",
               contours |-> << [points |-> <<Pt(0, -64), Pt(128, -64), Pt(128, -32)>>,
                                direction |-> TRUE] >>,
               inside |-> {},
               advance |-> 128, lsb_delta |-> -32, rsb_delta |-> -33]
         [] g = 3 ->
              [format |-> "outline", contours |-> <<>>, inside |-> {},
               advance |-> 64, lsb_delta |-> 0, rsb_delta |-> 0]
         [] g = 4 ->
              [format |-> "bitmap", contours |-> <<>>, inside |-> {},
               advance |-> 128, lsb_delta |-> 0, rsb_delta |-> 0]
         [] g = 6 ->
              [format |-> "outline",
               contours |-> << [points |-> <<Pt(40, 40), Pt(60, 40), Pt(50, 60)>>,
                                direction |-> FALSE],
                               [points |-> <<Pt(0, 0), Pt(256, 0), Pt(128, 256)>>,
                                direction |-> TRUE],
                               [points |-> <<Pt(32, 32), Pt(96, 32), Pt(64, 96)>>,
                                direction |-> TRUE],
                               [points |-> <<Pt(16, 16), Pt(224, 16), Pt(120, 224)>>,
                                direction |-> FALSE],
                               [points |-> <<Pt(300, 0), Pt(320, 0), Pt(310, 20)>>,
                                direction |-> FALSE] >>,
               inside |-> {<<1, 2>>, <<1, 3>>, <<1, 4>>, <<3, 2>>, <<3, 4>>, <<4, 2>>},
               advance |-> 320, lsb_delta |-> 0, rsb_delta |-> 0]
         [] g = 7 ->
              [format |-> "outline",
               contours |-> << [points |-> <<Pt(80, 0), Pt(96, 0)>>,
                                direction |-> TRUE],
                               [points |-> <<Pt(0, 0), Pt(64, 0), Pt(32, 64)>>,
                                direction |-> TRUE],
                               [points |-> <<Pt(16, 8), Pt(48, 8)>>,
                                direction |-> FALSE] >>,
               inside |-> {<<3, 2>>},
               advance |-> 128, lsb_delta |-> 0, rsb_delta |-> 0]
         [] OTHER -> ClearedSlot]

\* FT_Get_Char_Index(face, ch): 0 is the missing glyph
FT_Get_Char_Index(ch) ==
    CASE ch = "A" -> 1
      [] ch = "_" -> 2
      [] ch = " " -> 3
      [] ch = "#" -> 4
      [] ch = "!" -> 5
      [] ch = "@" -> 6
      [] ch = "." -> 7
      [] OTHER -> 0

\* whether FT_Load_Glyph(face, index, FT_LOAD_DEFAULT) returns an error
FT_Load_Glyph_fails(index) == index = 5

\* face->glyph after FT_Load_Glyph: the glyph's data, or, after a failed
\* load, the slot FreeType cleared before it tried
FT_Load_Glyph(index) ==
    IF FT_Load_Glyph_fails(index) THEN ClearedSlot ELSE Glyphs[index]

\* FT_Get_Glyph(face->glyph, &glyph) fails for a slot that holds no glyph
\* and then leaves the local pointer glyph as it was: uninitialised
FT_Get_Glyph_fails(glyphslot) == glyphslot.format = "none"

\* FT_Get_Kerning(face, left, right, FT_KERNING_DEFAULT, &kerning): kerning.x,
\* grid-fitted; the face kerns the pair "A" "_" both ways and nothing else
FT_Get_Kerning(left, right) ==
    CASE left = 1 /\ right = 2 -> -64
      [] left = 2 /\ right = 1 -> -64
      [] OTHER -> 0

\* x >> 6 on a signed 26.6 number: the floor of x / 64
Shr6(x) == x \div 64

(***************************************************************************)
(* State.                                                                  *)
(***************************************************************************)
VARIABLES
    hasKerning,          \* FT_HAS_KERNING(face): the face has a kerning table
    slot,                \* face->glyph, the face's glyph slot
    prevCharIndex,       \* static FT_UInt prevCharIndex
    curCharIndex,        \* static FT_UInt curCharIndex
    prev_rsb_delta,      \* static FT_Pos prev_rsb_delta
    pc,                  \* "idle", "loop", "returned", "exited", "crashed"
    exitCode,            \* the status the process exited with, -1 while it runs
    textString,          \* the argument of the current call
    i,                   \* characters of textString processed so far
    offset,              \* the cursor of rasterizeText
    trianglesPerLetter,  \* the mesh being built, then returned
    rawMesh,             \* the mesh as it was handed to outlinePostprocess
    cursors,             \* per character: the x-offset its contours were emitted with
    kerns,               \* per character: the kerning adjustment added to the cursor
    nudges,              \* per character: the hinting nudge added to the cursor
    loadFailed,          \* the indices whose FT_Load_Glyph failed in this call
    repeated,            \* this call repeats the previous call's arguments
    lastMesh,            \* what the previous call returned (when repeated)
    cdtLog               \* per character: the triangulations made for its glyph,
                         \* each with the contour given to p2t::CDT and the
                         \* contours given to AddHole

rasterizerVars ==
    <<hasKerning, slot, prevCharIndex, curCharIndex, prev_rsb_delta, pc,
      exitCode, textString, i, offset, trianglesPerLetter, rawMesh,
      cursors, kerns, nudges, loadFailed, repeated, lastMesh, cdtLog>>

VARIABLES
    hardwareConcurrency, \* what std::thread::hardware_concurrency() returned
    poolSize,            \* the number of worker threads of mThreadPool
    mGeometry,           \* the geometry shown and edited
    mGeometryInProgress, \* the geometry being loaded, or nullptr
    mGeometryFileName,   \* the path mGeometry was opened from
    mCommandManager,     \* the geometry the command manager was made for
    mProgressIndicator,  \* the geometry the progress indicator shows, or nullptr
    poolQueue,           \* the tasks enqueued in mThreadPool, oldest first
    running,             \* the tasks the worker threads are executing
    dispatchQueue,       \* the callbacks handed to dispatchAsync, oldest first
    loadFinished,        \* the geometries whose loadNewGeometry has returned
    appState,            \* "running", or "crashed"
    uiEvents,            \* the number of user requests handled so far
    lastCall,            \* the handler of the last user request, and whether
                         \* it was an openFile that returned at its first test
    installed            \* the last completion callback: the geometry the
                         \* openFile that enqueued it created, and the one it
                         \* made mGeometry

appVars ==
    <<hardwareConcurrency, poolSize, mGeometry, mGeometryInProgress,
      mGeometryFileName, mCommandManager, mProgressIndicator, poolQueue,
      running, dispatchQueue, loadFinished, appState, uiEvents, lastCall,
      installed>>

VARIABLES
    mIsFocused,          \* the window is the active one
    mShouldSkipDraw,     \* draw() returns at once
    frameRate,           \* the frame rate asked of cinder, 0 for unlimited
    elapsedFrames,       \* getElapsedFrames(), counted modulo CHECK_PERIOD
    lastDraw             \* what the last draw() did, until the next event

windowVars == <<mIsFocused, mShouldSkipDraw, frameRate, elapsedFrames, lastDraw>>

vars == <<rasterizerVars, appVars, windowVars>>

(***************************************************************************)
(* The per-character pipeline.                                             *)
(***************************************************************************)
\* abs() on the float minimum, taken as the floating point overload
abs(x) == IF x < 0 THEN -x ELSE x

Min(S) == CHOOSE m \in S : \A s \in S : m <= s

RECURSIVE Flatten(_)
Flatten(ss) == IF ss = <<>> THEN <<>> ELSE Head(ss) \o Flatten(Tail(ss))

\* triangulateContour: the contour's points, divided by 64 and moved right
\* by the cursor (here: in 1/64 units); y is not yet inverted
triangulateContour(contour, off) ==
    [p \in 1..Len(contour.points) |->
        Pt(contour.points[p].x + 64 * off, contour.points[p].y)]

\* the test of the inner loop without !sm->GetDirection()
isHoleOf_anyDirection(glyphslot, cm, c) ==
    c # cm /\ <<cm, c>> \in glyphslot.inside

\* the test of the inner loop without sm->IsInside(contour)
isHoleOf_notInside(glyphslot, cm, c) ==
    c # cm /\ ~glyphslot.contours[cm].direction

\* the test of the inner loop: contour cm is added as a hole to the
\* triangulation of contour c
isHoleOf(glyphslot, cm, c) ==
    c # cm /\ ~glyphslot.contours[cm].direction /\ <<cm, c>> \in glyphslot.inside

\* the holes added to the triangulation of contour c: every other contour
\* of hole direction that is inside c, in contour order
RECURSIVE HolesOf(_, _, _, _)
HolesOf(glyphslot, c, cm, off) ==
    IF cm > Len(glyphslot.contours) THEN <<>>
    ELSE (IF isHoleOf(glyphslot, cm, c)
          THEN <<triangulateContour(glyphslot.contours[cm], off)>>
          ELSE <<>>)
         \o HolesOf(glyphslot, c, cm + 1, off)

\* p2t::CDT(polyline), AddHole(pl)..., Triangulate(), GetTriangles().  The
\* triangulator is a library; what the layout code relies on is that every
\* triangle's corners are points it was given.  It is stood in for by a fan
\* over the outer polyline followed by the holes' points.
Triangulate(polyline, holes) ==
    LET P == polyline \o Flatten(holes)
    IN  [k \in 1..(Len(P) - 2) |-> <<P[1], P[k + 1], P[k + 2]>>]

\* a p2t triangle written into a Tri with y copied as it is
MakeTri_noInvert(ot) ==
    [a |-> [x |-> ot[1].x, y |-> ot[1].y, z |-> 0],
     b |-> [x |-> ot[2].x, y |-> ot[2].y, z |-> 0],
     c |-> [x |-> ot[3].x, y |-> ot[3].y, z |-> 0]]

\* one p2t triangle written into a Tri: y inverted, z = 0
MakeTri(ot) ==
    [a |-> [x |-> ot[1].x, y |-> -ot[1].y, z |-> 0],
     b |-> [x |-> ot[2].x, y |-> -ot[2].y, z |-> 0],
     c |-> [x |-> ot[3].x, y |-> -ot[3].y, z |-> 0]]

\* the contour loop of addOneCharacter from contour c on: trianglesLetter
RECURSIVE ContourLoop(_, _, _)
ContourLoop(glyphslot, c, off) ==
    IF c > Len(glyphslot.contours) THEN <<>>
    ELSE (IF glyphslot.contours[c].direction
          THEN LET ts == Triangulate(triangulateContour(glyphslot.contours[c], off),
                                     HolesOf(glyphslot, c, 1, off))
               IN  [t \in 1..Len(ts) |-> MakeTri(ts[t])]
          ELSE <<>>)
         \o ContourLoop(glyphslot, c + 1, off)

\* the indices of the contours the inner loop hands to AddHole for contour c
RECURSIVE holeIndices(_, _, _)
holeIndices(glyphslot, c, cm) ==
    IF cm > Len(glyphslot.contours) THEN <<>>
    ELSE (IF isHoleOf(glyphslot, cm, c) THEN <<cm>> ELSE <<>>)
         \o holeIndices(glyphslot, c, cm + 1)

\* the triangulations the contour loop makes from contour c on: one p2t::CDT
\* per contour whose GetDirection() is true
RECURSIVE cdtCalls(_, _)
cdtCalls(glyphslot, c) ==
    IF c > Len(glyphslot.contours) THEN <<>>
    ELSE (IF glyphslot.contours[c].direction
          THEN <<[outer |-> c, holes |-> holeIndices(glyphslot, c, 1)]>>
          ELSE <<>>)
         \o cdtCalls(glyphslot, c + 1)

\* the kerning with kerning.x added as it comes, without >> 6
kerningAdjustment_unshifted(prev, cur) ==
    IF hasKerning /\ prev # 0 THEN FT_Get_Kerning(prev, cur) ELSE 0

\* the kerning added to the cursor
kerningAdjustment(prev, cur) ==
    IF hasKerning /\ prev # 0 THEN Shr6(FT_Get_Kerning(prev, cur)) ELSE 0

\* the hinting correction with the comparisons made against a full unit
\* (64) instead of HINT_THRESHOLD
hintingNudge_fullUnit(d) ==
    IF d >= 64 THEN -1
    ELSE IF d < -64 THEN 1
    ELSE 0

\* the hinting correction added to the cursor, d = prev_rsb_delta - lsb_delta
hintingNudge(d) ==
    IF d >= HINT_THRESHOLD THEN -1
    ELSE IF d < -HINT_THRESHOLD THEN 1
    ELSE 0

\* textString[k - 1] for the k-th character; std::string gives the
\* terminating NUL at position size()
charAt(text, k) == IF k \in 1..Len(text) THEN text[k] ELSE "NUL"

\* the loop condition written i <= textString.size()
loopContinues_inclusive(idx, text) == idx <= Len(text)

\* the loop condition of rasterizeText, idx characters being done
loopContinues(idx, text) == idx < Len(text)

\* trianglesPerLetter.push_back({})
pushBackLetter(tpl) == Append(tpl, <<>>)

\* the letter's triangles moved into trianglesPerLetter.front()
assignLetter_front(tpl, trianglesLetter) ==
    [tpl EXCEPT ![1] = trianglesLetter]

\* outTriangles = std::move(trianglesLetter), outTriangles being
\* trianglesPerLetter.back()
assignLetter(tpl, trianglesLetter) ==
    [tpl EXCEPT ![Len(tpl)] = trianglesLetter]

(***************************************************************************)
(* outlinePostprocess.                                                     *)
(***************************************************************************)
\* the y coordinates of all corners of all triangles of all letters
AllY(tpl) ==
    UNION {UNION {{tpl[l][t].a.y, tpl[l][t].b.y, tpl[l][t].c.y} : t \in DOMAIN tpl[l]}
             : l \in DOMAIN tpl}

\* the first loop: min starts at FLT_MAX and takes every smaller y
minY(tpl) == Min(AllY(tpl) \cup {FLT_MAX})

ShiftTri(t, addToZero) ==
    [a |-> [t.a EXCEPT !.y = @ + addToZero],
     b |-> [t.b EXCEPT !.y = @ + addToZero],
     c |-> [t.c EXCEPT !.y = @ + addToZero]]

\* the second loop: every y moved up by addToZero
ShiftAll(tpl, addToZero) ==
    [l \in DOMAIN tpl |-> [t \in DOMAIN tpl[l] |-> ShiftTri(tpl[l][t], addToZero)]]

\* the minimum added as it is, without abs()
outlinePostprocess_noAbs(tpl) == ShiftAll(tpl, minY(tpl))

outlinePostprocess(tpl) == ShiftAll(tpl, abs(minY(tpl)))

(***************************************************************************)
(* Operations.                                                             *)
(***************************************************************************)
Texts == UNION {[1..n -> Chars] : n \in 0..MaxLen}

\* the rasterizer before its first call
RasterizerStart ==
    /\ hasKerning \in BOOLEAN
    /\ slot = ClearedSlot
    /\ prevCharIndex = 0
    /\ curCharIndex = 0
    /\ prev_rsb_delta = 0
    /\ pc = "idle"
    /\ exitCode = -1
    /\ textString = <<>>
    /\ i = 0
    /\ offset = 0
    /\ trianglesPerLetter = <<>>
    /\ rawMesh = <<>>
    /\ cursors = <<>>
    /\ kerns = <<>>
    /\ nudges = <<>>
    /\ loadFailed = {}
    /\ repeated = FALSE
    /\ lastMesh = <<>>
    /\ cdtLog = <<>>

\* std::max<size_t>(a, b)
max(a, b) == IF a < b THEN b ELSE a

\* a pool sized with a floor of 2 in place of MIN_CONCURRENCY
ThreadPoolSize_floorTwo(hc) == max(2, hc) - 1

\* the argument of mThreadPool's constructor
ThreadPoolSize(hc) == max(MIN_CONCURRENCY, hc) - 1

\* the application after its constructor and setup(): the pool is made, the
\* default cube is loaded (synchronously) into geometry 1 and the command
\* manager is made for it
ApplicationStart ==
    /\ hardwareConcurrency \in 0..MaxCores
    /\ poolSize = ThreadPoolSize(hardwareConcurrency)
    /\ mGeometry = 1
    /\ mGeometryInProgress = nullptr
    /\ mGeometryFileName = ""
    /\ mCommandManager = 1
    /\ mProgressIndicator = nullptr
    /\ poolQueue = <<>>
    /\ running = {}
    /\ dispatchQueue = <<>>
    /\ loadFinished = {1}
    /\ appState = "running"
    /\ uiEvents = 0
    /\ lastCall = [handler |-> "none", refused |-> FALSE]
    /\ installed = [origin |-> nullptr, geometry |-> nullptr]

\* the window before its first event: draw is not skipped
WindowStart ==
    /\ mIsFocused \in BOOLEAN
    /\ mShouldSkipDraw = FALSE
    /\ frameRate = 0
    /\ elapsedFrames = 0
    /\ lastDraw = "none"

\* the rasterizer on its own: the application stays as it starts
Init ==
    /\ RasterizerStart
    /\ ApplicationStart
    /\ WindowStart
    /\ hardwareConcurrency = 0
    /\ mIsFocused

\* rasterizeText is entered: the mesh is empty and the cursor at 0.  The
\* statics of addOneCharacter and the face's slot are what the last call
\* left.  A call with the text of the call that just returned is a repeated
\* call; what that call returned is kept to compare with.
rasterizeText(text) ==
    /\ pc \in {"idle", "returned"}
    /\ UNCHANGED <<appVars, windowVars>>
    /\ pc' = "loop"
    /\ textString' = text
    /\ i' = 0
    /\ offset' = 0
    /\ trianglesPerLetter' = <<>>
    /\ rawMesh' = <<>>
    /\ cursors' = <<>>
    /\ kerns' = <<>>
    /\ nudges' = <<>>
    /\ loadFailed' = {}
    /\ cdtLog' = <<>>
    /\ repeated' = (pc = "returned" /\ text = textString)
    /\ lastMesh' = IF pc = "returned" /\ text = textString
                   THEN trianglesPerLetter ELSE <<>>
    /\ UNCHANGED <<hasKerning, slot, prevCharIndex, curCharIndex,
                   prev_rsb_delta, exitCode>>

\* addOneCharacter from the glyph format check on, for a glyph that passed
\* it: kerning, hinting correction, the contour loop, the advance
addOneCharacterLayout(index, glyphslot) ==
    LET kern  == kerningAdjustment(prevCharIndex, index)
        nudge == hintingNudge(prev_rsb_delta - glyphslot.lsb_delta)
        off   == offset + kern + nudge
    IN  /\ pc' = "loop"
        /\ curCharIndex' = index
        /\ slot' = glyphslot
        /\ prev_rsb_delta' = glyphslot.rsb_delta
        /\ prevCharIndex' = index
        /\ trianglesPerLetter' =
               assignLetter(pushBackLetter(trianglesPerLetter),
                            ContourLoop(glyphslot, 1, off))
        /\ offset' = off + Shr6(glyphslot.advance)
        /\ i' = i + 1
        /\ cursors' = Append(cursors, off)
        /\ kerns' = Append(kerns, kern)
        /\ nudges' = Append(nudges, nudge)
        /\ loadFailed' = IF FT_Load_Glyph_fails(index)
                         THEN loadFailed \cup {i + 1} ELSE loadFailed
        /\ cdtLog' = Append(cdtLog, cdtCalls(glyphslot, 1))
        /\ UNCHANGED <<hasKerning, exitCode, textString, rawMesh, repeated, lastMesh>>

\* addOneCharacter ends the process: exit(0) after "Invalid Glyph Format",
\* or a crash on the dereference of the pointer glyph
addOneCharacterAbort(index, glyphslot, how, status) ==
    /\ pc' = how
    /\ exitCode' = status
    /\ curCharIndex' = index
    /\ slot' = glyphslot
    /\ trianglesPerLetter' = pushBackLetter(trianglesPerLetter)
    /\ i' = i + 1
    /\ loadFailed' = IF FT_Load_Glyph_fails(index)
                     THEN loadFailed \cup {i + 1} ELSE loadFailed
    /\ UNCHANGED <<hasKerning, prevCharIndex, prev_rsb_delta, textString, offset,
                   rawMesh, cursors, kerns, nudges, repeated, lastMesh, cdtLog>>

\* one turn of rasterizeText's loop: push_back({}) and addOneCharacter.
\* A failed FT_Load_Glyph or FT_Get_Glyph is only printed.  When
\* FT_Get_Glyph failed, glyph->format reads through an uninitialised
\* pointer: the read may fault, may give something other than
\* FT_GLYPH_FORMAT_OUTLINE, or may give FT_GLYPH_FORMAT_OUTLINE.
addOneCharacter ==
    /\ pc = "loop"
    /\ loopContinues(i, textString)
    /\ UNCHANGED <<appVars, windowVars>>
    /\ LET index     == FT_Get_Char_Index(charAt(textString, i + 1))
           glyphslot == FT_Load_Glyph(index)
       IN  \/ /\ ~FT_Get_Glyph_fails(glyphslot)
              /\ glyphslot.format = "outline"
              /\ addOneCharacterLayout(index, glyphslot)
           \/ /\ ~FT_Get_Glyph_fails(glyphslot)
              /\ glyphslot.format # "outline"
              /\ addOneCharacterAbort(index, glyphslot, "exited", EXIT_STATUS)
           \/ /\ FT_Get_Glyph_fails(glyphslot)
              /\ addOneCharacterLayout(index, glyphslot)
           \/ /\ FT_Get_Glyph_fails(glyphslot)
              /\ addOneCharacterAbort(index, glyphslot, "exited", EXIT_STATUS)
           \/ /\ FT_Get_Glyph_fails(glyphslot)
              /\ addOneCharacterAbort(index, glyphslot, "crashed", -1)

\* the loop is over: outlinePostprocess, and the mesh is returned
rasterizeTextReturn ==
    /\ pc = "loop"
    /\ ~loopContinues(i, textString)
    /\ UNCHANGED <<appVars, windowVars>>
    /\ pc' = "returned"
    /\ rawMesh' = trianglesPerLetter
    /\ trianglesPerLetter' = outlinePostprocess(trianglesPerLetter)
    /\ UNCHANGED <<hasKerning, slot, prevCharIndex, curCharIndex, prev_rsb_delta,
                   exitCode, textString, i, offset, cursors, kerns, nudges,
                   loadFailed, repeated, lastMesh, cdtLog>>

Next ==
    \/ \E text \in Texts : rasterizeText(text)
    \/ addOneCharacter
    \/ rasterizeTextReturn

Spec == Init /\ [][Next]_vars

(***************************************************************************)
(* MainApplication: opening and saving files.  openFile, fileDrop,         *)
(* saveFile and the callbacks given to dispatchAsync run on the main       *)
(* thread, one at a time; the tasks given to mThreadPool run on its worker *)
(* threads.  Geometries are numbered in the order of their make_shared:    *)
(* geometry 1 is setup()'s, the n-th user request that creates one makes   *)
(* geometry n + 1.                                                         *)
(***************************************************************************)
Paths == {"a.stl", "b.obj"}

\* event.getFiles() of a FileDropEvent
FileLists == {<<>>} \cup {<<path>> : path \in Paths}

Task(id, kind, geometry, path, stage) ==
    [id |-> id, kind |-> kind, geometry |-> geometry, path |-> path, stage |-> stage]

Callback(kind, path, origin) == [kind |-> kind, path |-> path, origin |-> origin]

\* openFile without its first test
openFileRefuses_never(inProgress) == FALSE

\* the first test of openFile: a load is already going on
openFileRefuses(inProgress) == inProgress # nullptr

\* openFile(path): refused while a geometry is in progress; otherwise a new
\* geometry is made, shown by the progress indicator, and its load task is
\* enqueued.  (The tools' onNewGeometryLoaded hooks hold no state here.)
openFileBody(path, handler) ==
    /\ uiEvents' = uiEvents + 1
    /\ lastCall' = [handler |-> handler,
                    refused |-> openFileRefuses(mGeometryInProgress)]
    /\ IF openFileRefuses(mGeometryInProgress)
       THEN UNCHANGED <<mGeometryInProgress, mProgressIndicator, poolQueue>>
       ELSE /\ mGeometryInProgress' = uiEvents + 2
            /\ mProgressIndicator' = uiEvents + 2
            /\ poolQueue' = Append(poolQueue,
                                   Task(uiEvents + 1, "load", uiEvents + 2, path, "todo"))
    /\ UNCHANGED <<hardwareConcurrency, poolSize, mGeometry, mGeometryFileName,
                   mCommandManager, running, dispatchQueue, loadFinished,
                   appState, installed>>

openFile(path) ==
    /\ appState = "running"
    /\ UNCHANGED <<rasterizerVars, windowVars>>
    /\ uiEvents < MaxEvents
    /\ openFileBody(path, "openFile")

\* fileDrop: nothing without a geometry or without a file, else openFile of
\* the first file
fileDrop(files) ==
    /\ appState = "running"
    /\ UNCHANGED <<rasterizerVars, windowVars>>
    /\ uiEvents < MaxEvents
    /\ IF mGeometry = nullptr \/ Len(files) < 1
       THEN /\ uiEvents' = uiEvents + 1
            /\ lastCall' = [handler |-> "fileDrop", refused |-> FALSE]
            /\ UNCHANGED <<hardwareConcurrency, poolSize, mGeometry,
                           mGeometryInProgress, mGeometryFileName, mCommandManager,
                           mProgressIndicator, poolQueue, running, dispatchQueue,
                           loadFinished, appState, installed>>
       ELSE openFileBody(files[1], "fileDrop")

\* saveFile: the progress indicator is pointed at mGeometry and the export
\* task is enqueued; the task captures this, not the geometry
saveFile ==
    /\ appState = "running"
    /\ UNCHANGED <<rasterizerVars, windowVars>>
    /\ uiEvents < MaxEvents
    /\ uiEvents' = uiEvents + 1
    /\ lastCall' = [handler |-> "saveFile", refused |-> FALSE]
    /\ IF mGeometry = nullptr
       THEN UNCHANGED <<mProgressIndicator, poolQueue>>
       ELSE /\ mProgressIndicator' = mGeometry
            /\ poolQueue' = Append(poolQueue,
                                   Task(uiEvents + 1, "save", nullptr, "", "todo"))
    /\ UNCHANGED <<hardwareConcurrency, poolSize, mGeometry, mGeometryInProgress,
                   mGeometryFileName, mCommandManager, running, dispatchQueue,
                   loadFinished, appState, installed>>

\* a load callback is at the head of the main thread's queue: the main
\* thread may be writing mGeometry now
loadCallbackDue ==
    dispatchQueue # <<>> /\ Head(dispatchQueue).kind = "loaded"

\* an idle worker thread takes the oldest task.  An export task reads
\* this->mGeometry at its start, from the worker thread.
workerTakesTask ==
    /\ appState = "running"
    /\ UNCHANGED <<rasterizerVars, windowVars>>
    /\ poolQueue # <<>>
    /\ Cardinality(running) < poolSize
    /\ LET task == Head(poolQueue)
       IN  running' = running \cup
               {IF task.kind = "save"
                THEN Task(task.id, "save", mGeometry, "", "exporting")
                ELSE task}
    /\ poolQueue' = Tail(poolQueue)
    /\ UNCHANGED <<hardwareConcurrency, poolSize, mGeometry, mGeometryInProgress,
                   mGeometryFileName, mCommandManager, mProgressIndicator,
                   dispatchQueue, loadFinished, appState, uiEvents, lastCall,
                   installed>>

\* the export task's read of mGeometry on a worker thread while the main
\* thread runs the load callback that assigns mGeometry: the two accesses
\* are not ordered by anything, a data race, and the process may fault
saveTaskRace ==
    /\ appState = "running"
    /\ UNCHANGED <<rasterizerVars, windowVars>>
    /\ poolQueue # <<>>
    /\ Head(poolQueue).kind = "save"
    /\ Cardinality(running) < poolSize
    /\ loadCallbackDue
    /\ appState' = "crashed"
    /\ UNCHANGED <<hardwareConcurrency, poolSize, mGeometry, mGeometryInProgress,
                   mGeometryFileName, mCommandManager, mProgressIndicator, poolQueue,
                   running, dispatchQueue, loadFinished, uiEvents, lastCall,
                   installed>>

\* geometry->loadNewGeometry(path, mThreadPool) hands part of its work to
\* the same pool and waits for it
loadEnqueuesNested ==
    /\ appState = "running"
    /\ UNCHANGED <<rasterizerVars, windowVars>>
    /\ \E task \in running :
          /\ task.kind = "load"
          /\ task.stage = "todo"
          /\ running' = (running \ {task}) \cup
                            {Task(task.id, "load", task.geometry, task.path, "waiting")}
          /\ poolQueue' = Append(poolQueue,
                                 Task(task.id, "nested", task.geometry, task.path, "todo"))
    /\ UNCHANGED <<hardwareConcurrency, poolSize, mGeometry, mGeometryInProgress,
                   mGeometryFileName, mCommandManager, mProgressIndicator,
                   dispatchQueue, loadFinished, appState, uiEvents, lastCall,
                   installed>>

\* a worker finishes the nested task; the load task that waits for it goes on
nestedTaskFinishes ==
    /\ appState = "running"
    /\ UNCHANGED <<rasterizerVars, windowVars>>
    /\ \E nested \in running : \E task \in running :
          /\ nested.kind = "nested"
          /\ task.kind = "load"
          /\ task.id = nested.id
          /\ running' = (running \ {nested, task}) \cup
                            {Task(task.id, "load", task.geometry, task.path, "done")}
    /\ UNCHANGED <<hardwareConcurrency, poolSize, mGeometry, mGeometryInProgress,
                   mGeometryFileName, mCommandManager, mProgressIndicator, poolQueue,
                   dispatchQueue, loadFinished, appState, uiEvents, lastCall,
                   installed>>

\* loadNewGeometry returns; the task hands its callback to dispatchAsync
loadTaskFinishes ==
    /\ appState = "running"
    /\ UNCHANGED <<rasterizerVars, windowVars>>
    /\ \E task \in running :
          /\ task.kind = "load"
          /\ task.stage = "done"
          /\ running' = running \ {task}
          /\ loadFinished' = loadFinished \cup {task.geometry}
          /\ dispatchQueue' = Append(dispatchQueue,
                                     Callback("loaded", task.path, task.geometry))
    /\ UNCHANGED <<hardwareConcurrency, poolSize, mGeometry, mGeometryInProgress,
                   mGeometryFileName, mCommandManager, mProgressIndicator, poolQueue,
                   appState, uiEvents, lastCall, installed>>

\* exportGeometry returns; the task hands its callback to dispatchAsync
saveTaskFinishes ==
    /\ appState = "running"
    /\ UNCHANGED <<rasterizerVars, windowVars>>
    /\ \E task \in running :
          /\ task.kind = "save"
          /\ running' = running \ {task}
          /\ dispatchQueue' = Append(dispatchQueue, Callback("saved", "", nullptr))
    /\ UNCHANGED <<hardwareConcurrency, poolSize, mGeometry, mGeometryInProgress,
                   mGeometryFileName, mCommandManager, mProgressIndicator, poolQueue,
                   loadFinished, appState, uiEvents, lastCall, installed>>

\* the main thread runs the oldest callback.  The load callback installs
\* mGeometryInProgress, whatever it is by now; the save callback only
\* clears the progress indicator.
mainThreadRunsCallback ==
    /\ appState = "running"
    /\ UNCHANGED <<rasterizerVars, windowVars>>
    /\ dispatchQueue # <<>>
    /\ LET callback == Head(dispatchQueue)
       IN  IF callback.kind = "loaded"
           THEN /\ mGeometry' = mGeometryInProgress
                /\ mGeometryInProgress' = nullptr
                /\ mGeometryFileName' = callback.path
                /\ mCommandManager' = mGeometryInProgress
                /\ mProgressIndicator' = nullptr
                /\ installed' = [origin |-> callback.origin,
                                 geometry |-> mGeometryInProgress]
           ELSE /\ mProgressIndicator' = nullptr
                /\ UNCHANGED <<mGeometry, mGeometryInProgress, mGeometryFileName,
                               mCommandManager, installed>>
    /\ dispatchQueue' = Tail(dispatchQueue)
    /\ UNCHANGED <<hardwareConcurrency, poolSize, poolQueue, running, loadFinished,
                   appState, uiEvents, lastCall>>

\* the main thread's handlers and the pool's steps
AppNext ==
    \/ \E path \in Paths : openFile(path)
    \/ \E files \in FileLists : fileDrop(files)
    \/ saveFile
    \/ workerTakesTask
    \/ saveTaskRace
    \/ loadEnqueuesNested
    \/ nestedTaskFinishes
    \/ loadTaskFinishes
    \/ saveTaskFinishes
    \/ mainThreadRunsCallback

AppInit ==
    /\ RasterizerStart
    /\ ApplicationStart
    /\ WindowStart
    /\ hasKerning
    /\ mIsFocused

AppSpec == AppInit /\ [][AppNext]_vars

\* the pool's worker threads and the main thread's dispatch queue keep
\* running; nothing obliges the user to make requests, and nothing obliges
\* the race to end badly
AppFairSpec ==
    /\ AppSpec
    /\ WF_vars(workerTakesTask)
    /\ WF_vars(loadEnqueuesNested)
    /\ WF_vars(nestedTaskFinishes)
    /\ WF_vars(loadTaskFinishes)
    /\ WF_vars(saveTaskFinishes)
    /\ WF_vars(mainThreadRunsCallback)

(***************************************************************************)
(* MainApplication: the window's focus and the skipping of draw.           *)
(***************************************************************************)
\* update() that looks at the window whether or not it has the focus
skipDrawAfterUpdate_anyFocus(isFocused, shouldSkipDraw, frames, obscured) ==
    IF /\ \/ shouldSkipDraw /\ frames % CHECK_PERIOD_SKIPPING = 0
          \/ ~shouldSkipDraw /\ frames % CHECK_PERIOD = 0
       /\ obscured
    THEN TRUE
    ELSE shouldSkipDraw

\* the three nested tests of update() (CINDER_MSW_DESKTOP): the window is
\* not focused, this frame is one of the checked ones and
\* isWindowObscured() says yes
obscuredSeen(isFocused, shouldSkipDraw, frames, obscured) ==
    /\ ~isFocused
    /\ \/ shouldSkipDraw /\ frames % CHECK_PERIOD_SKIPPING = 0
       \/ ~shouldSkipDraw /\ frames % CHECK_PERIOD = 0
    /\ obscured

\* mShouldSkipDraw after update()
skipDrawAfterUpdate(isFocused, shouldSkipDraw, frames, obscured) ==
    IF obscuredSeen(isFocused, shouldSkipDraw, frames, obscured)
    THEN TRUE
    ELSE shouldSkipDraw

\* update() of one frame; where CINDER_MSW_DESKTOP is not defined update()
\* changes nothing.  The frame rate drops to 2 when skipping starts.
update(obscured) ==
    LET skip == skipDrawAfterUpdate(mIsFocused, mShouldSkipDraw, elapsedFrames, obscured)
    IN  /\ UNCHANGED <<rasterizerVars, appVars>>
        /\ mShouldSkipDraw' = skip
        /\ frameRate' = IF obscuredSeen(mIsFocused, mShouldSkipDraw, elapsedFrames, obscured)
                         THEN 2 ELSE frameRate
        /\ elapsedFrames' = (elapsedFrames + 1) % CHECK_PERIOD
        /\ lastDraw' = "none"
        /\ UNCHANGED mIsFocused

\* draw(): returns at once when mShouldSkipDraw, else draws the frame
draw ==
    /\ UNCHANGED <<rasterizerVars, appVars>>
    /\ lastDraw' = IF mShouldSkipDraw THEN "skipped" ELSE "drawn"
    /\ UNCHANGED <<mIsFocused, mShouldSkipDraw, frameRate, elapsedFrames>>

willResignActive ==
    /\ UNCHANGED <<rasterizerVars, appVars>>
    /\ frameRate' = 24
    /\ mIsFocused' = FALSE
    /\ lastDraw' = "none"
    /\ UNCHANGED <<mShouldSkipDraw, elapsedFrames>>

didBecomeActive ==
    /\ UNCHANGED <<rasterizerVars, appVars>>
    /\ frameRate' = 0
    /\ mIsFocused' = TRUE
    /\ mShouldSkipDraw' = FALSE
    /\ lastDraw' = "none"
    /\ UNCHANGED elapsedFrames

WindowNext ==
    \/ \E obscured \in BOOLEAN : update(obscured)
    \/ draw
    \/ willResignActive
    \/ didBecomeActive

WindowInit ==
    /\ RasterizerStart
    /\ ApplicationStart
    /\ WindowStart
    /\ hasKerning
    /\ hardwareConcurrency = 0

WindowSpec == WindowInit /\ [][WindowNext]_vars

(***************************************************************************)
(* Properties.                                                             *)
(***************************************************************************)
\* the glyph index of the j-th character of the current call
IndexAt(j) == FT_Get_Char_Index(textString[j])

\* the triangles the contour loop emits for the j-th character
ExpectedRun(j) == ContourLoop(FT_Load_Glyph(IndexAt(j)), 1, cursors[j])

Corners(t) == {t.a, t.b, t.c}

\* C1: whenever rasterizeText returns a mesh with at least one triangle,
\* the smallest y over all corners of the mesh is exactly 0.
C1_MinimumYIsZero ==
    (pc = "returned" /\ AllY(trianglesPerLetter) # {})
        => Min(AllY(trianglesPerLetter)) = 0

\* C2: whenever rasterizeText returns, every corner of every triangle of
\* the mesh has y >= 0.
C2_NonNegativeY ==
    pc = "returned" => \A y \in AllY(trianglesPerLetter) : y >= 0

\* a call returned whose triangles reached below 0 before normalisation
C2_Witness ==
    /\ pc = "returned"
    /\ AllY(rawMesh) # {}
    /\ minY(rawMesh) < 0

\* C3: a call of rasterizeText with the arguments of the call that just
\* returned returns the same mesh as that call.
C3_RepeatedCallSameMesh ==
    (pc = "returned" /\ repeated) => trianglesPerLetter = lastMesh

\* C4: the mesh has one run per character processed, and run j holds
\* exactly the triangles emitted for character j: while the loop runs as
\* they were emitted, and in the returned mesh with the same x and z and
\* with every y moved by one common amount.
C4_OneRunPerCharacter ==
    /\ pc = "loop" =>
          /\ Len(trianglesPerLetter) = i
          /\ \A j \in 1..i : trianglesPerLetter[j] = ExpectedRun(j)
    /\ pc = "returned" =>
          /\ Len(trianglesPerLetter) = Len(textString)
          /\ \A j \in 1..Len(textString) :
                /\ rawMesh[j] = ExpectedRun(j)
                /\ Len(trianglesPerLetter[j]) = Len(ExpectedRun(j))
                /\ \A t \in 1..Len(ExpectedRun(j)) :
                      /\ trianglesPerLetter[j][t].a.x = ExpectedRun(j)[t].a.x
                      /\ trianglesPerLetter[j][t].b.x = ExpectedRun(j)[t].b.x
                      /\ trianglesPerLetter[j][t].c.x = ExpectedRun(j)[t].c.x
                      /\ \A v \in Corners(trianglesPerLetter[j][t]) : v.z = 0
          /\ Cardinality(
                UNION {UNION {{trianglesPerLetter[j][t].a.y - rawMesh[j][t].a.y,
                               trianglesPerLetter[j][t].b.y - rawMesh[j][t].b.y,
                               trianglesPerLetter[j][t].c.y - rawMesh[j][t].c.y}
                                 : t \in DOMAIN rawMesh[j]}
                          : j \in DOMAIN rawMesh}) <= 1

\* a returned mesh of two runs: an empty one, then a letter's triangles
C4_Witness ==
    /\ pc = "returned"
    /\ Len(textString) = 2
    /\ trianglesPerLetter[1] = <<>>
    /\ trianglesPerLetter[2] # <<>>
    /\ Len(trianglesPerLetter[2]) = Len(ExpectedRun(2))

\* a character whose glyph loads, but not as a vector outline
NonOutlineAt(j) ==
    /\ ~FT_Load_Glyph_fails(IndexAt(j))
    /\ Glyphs[IndexAt(j)].format # "outline"

\* C5: once a character's glyph is found not to be a vector outline, the
\* call has ended with an error outcome ("failed") handed to its caller,
\* or at the least the process has not ended with the success status.
C5_FormatErrorReported ==
    (\E j \in 1..i : NonOutlineAt(j))
        => \/ pc = "failed"
           \/ (pc = "exited" /\ exitCode # 0)

\* a character for which the glyph lookup gave the missing glyph, or whose
\* glyph could not be loaded
LookupFailedAt(j) == IndexAt(j) = 0 \/ FT_Load_Glyph_fails(IndexAt(j))

\* C6: in a call that meets no non-outline glyph, a character whose glyph
\* lookup or load failed never ends the call, and its run is empty.
C6_LookupFailureAbsorbed ==
    (\A j \in 1..i : ~NonOutlineAt(j))
        => \A j \in 1..i :
              LookupFailedAt(j)
                  => /\ pc \notin {"exited", "crashed"}
                     /\ trianglesPerLetter[j] = <<>>

\* C7: a returned call whose text is one or more spaces has only empty
\* runs, and its final cursor is the sum of the spaces' advances.
C7_SpacesAdvance ==
    (/\ pc = "returned"
     /\ Len(textString) > 0
     /\ \A j \in 1..Len(textString) : textString[j] = " ")
        => /\ \A j \in 1..Len(textString) : trianglesPerLetter[j] = <<>>
           /\ offset = Len(textString) * Shr6(Glyphs[FT_Get_Char_Index(" ")].advance)

\* C8: the empty string returns the empty mesh without ending the process,
\* and a mesh without any triangle is returned as it was before
\* outlinePostprocess.
C8_EmptyMeshUnchanged ==
    /\ textString = <<>> => pc \notin {"exited", "crashed"}
    /\ pc = "returned" =>
          /\ textString = <<>> => trianglesPerLetter = <<>>
          /\ AllY(rawMesh) = {} => trianglesPerLetter = rawMesh

\* the empty string was rasterized after an earlier call had left its glyph
\* in the face
C8_Witness ==
    /\ pc = "returned"
    /\ textString = <<>>
    /\ rawMesh = <<>>
    /\ prevCharIndex # 0

\* C9: the kerning added for the first character of a call is 0, as is
\* every kerning when the face has no kerning table; for a later character
\* it is the face's kerning of the previous and the current glyph.
C9_KerningAdjustment ==
    \A j \in 1..Len(kerns) :
        kerns[j] = IF j = 1 \/ ~hasKerning
                   THEN 0
                   ELSE Shr6(FT_Get_Kerning(IndexAt(j - 1), IndexAt(j)))

\* the nudge of -1, +1 or 0 for a side bearing carry d and a threshold th
NudgeFor(d, th) == IF d >= th THEN -1 ELSE IF d < -th THEN 1 ELSE 0

\* what a turn of the loop added to the cursor besides kerning and advance
NudgeApplied == offset' - Shr6(slot'.advance) - kerns'[i'] - offset

LetterDone == pc = "loop" /\ pc' = "loop" /\ i' = i + 1

\* C10 as claimed: a character's nudge is -1 when d, the previous glyph's
\* rsb delta minus its own lsb delta, is at least one full unit (64), +1
\* when d is below minus one full unit, and 0 otherwise.
C10_FullUnitNudge ==
    [][LetterDone =>
          NudgeApplied = NudgeFor(prev_rsb_delta - slot'.lsb_delta, 64)]_vars

\* C10 as amended: a character's nudge is -1 when d is at least half a
\* unit (32), +1 when d is below minus half a unit, and 0 otherwise, d
\* being prev_rsb_delta minus the glyph's lsb delta.
C10_HalfUnitNudge ==
    [][LetterDone =>
          NudgeApplied = NudgeFor(prev_rsb_delta - slot'.lsb_delta, 32)]_vars

\* "A" after "A": d is 32, half a unit, and the cursor was nudged by -1
C10_Witness ==
    /\ pc = "loop"
    /\ i >= 2
    /\ Glyphs[IndexAt(i - 1)].rsb_delta - Glyphs[IndexAt(i)].lsb_delta = 32
    /\ ~FT_Load_Glyph_fails(IndexAt(i - 1))
    /\ nudges[i] = -1
    /\ cursors[i] = cursors[i - 1] + Shr6(Glyphs[IndexAt(i - 1)].advance) + kerns[i] - 1


\* the glyph the j-th character of the current call was laid out from
GlyphAt(j) == FT_Load_Glyph(IndexAt(j))

\* the contours of glyph g that were handed to AddHole in triangulation call
HoleSet(call) == {call.holes[h] : h \in 1..Len(call.holes)}

\* the mesh before outlinePostprocess
MeshBeforeNormalization == IF pc = "returned" THEN rawMesh ELSE trianglesPerLetter

\* C11: a contour is handed to AddHole for outer contour c only if it is
\* another contour than c, has hole direction and is inside c; and only
\* contours of outer direction are triangulated as domains.
C11_HolesOnlyInsideOpposite ==
    \A j \in 1..Len(cdtLog) : \A k \in 1..Len(cdtLog[j]) :
        LET g    == GlyphAt(j)
            call == cdtLog[j][k]
        IN  /\ g.contours[call.outer].direction
            /\ \A cm \in HoleSet(call) :
                  /\ cm # call.outer
                  /\ ~g.contours[cm].direction
                  /\ <<cm, call.outer>> \in g.inside

\* "@" was laid out: one of its outer contours lies inside the other and
\* one of its hole contours lies inside neither, and holes were added
C11_Witness ==
    \E j \in 1..Len(cdtLog) :
        /\ IndexAt(j) = 6
        /\ \E k \in 1..Len(cdtLog[j]) : cdtLog[j][k].holes # <<>>
        /\ \A k \in 1..Len(cdtLog[j]) : HoleSet(cdtLog[j][k]) \subseteq {1, 4}

\* C12: a contour with fewer than 3 points is never triangulated: it is
\* neither the domain of a triangulation nor added to one as a hole.
C12_DegenerateContourSkipped ==
    \A j \in 1..Len(cdtLog) : \A k \in 1..Len(cdtLog[j]) :
        LET g    == GlyphAt(j)
            call == cdtLog[j][k]
        IN  /\ Len(g.contours[call.outer].points) >= 3
            /\ \A cm \in HoleSet(call) : Len(g.contours[cm].points) >= 3

\* the cursor character j was emitted with, computed from the glyph data:
\* the cursor the previous character left, plus the kerning and the nudge
CursorOf(j) ==
    (IF j = 1 THEN 0 ELSE cursors[j - 1] + Shr6(GlyphAt(j - 1).advance))
        + kerns[j] + nudges[j]

\* corner v is the image of a point of glyph g under the cursor cur
IsImageOf(v, g, cur) ==
    \E c \in 1..Len(g.contours) : \E p \in 1..Len(g.contours[c].points) :
        /\ v.x = g.contours[c].points[p].x + 64 * cur
        /\ v.y = -(g.contours[c].points[p].y)
        /\ v.z = 0

\* C13: before normalisation every corner of every triangle of character j
\* is (px/64 + cursor_j, -(py/64), 0) for a contour point (px, py) of that
\* character's glyph, cursor_j being the cursor after kerning and nudge
\* and before the advance, the same for the outer contour and its holes.
C13_VerticesAreContourImages ==
    \A j \in 1..Len(cursors) :
        \A t \in 1..Len(MeshBeforeNormalization[j]) :
            \A v \in Corners(MeshBeforeNormalization[j][t]) :
                IsImageOf(v, GlyphAt(j), CursorOf(j))

\* a glyph with a hole was emitted at a cursor other than 0, and a corner
\* of its triangles is a point of the hole
C13_Witness ==
    /\ Len(cursors) = 2
    /\ IndexAt(2) = 1
    /\ cursors[2] # 0
    /\ \E t \in 1..Len(MeshBeforeNormalization[2]) :
          \E v \in Corners(MeshBeforeNormalization[2][t]) :
              v.x = 48 + 64 * cursors[2] /\ v.y = -32

\* C14: a hole contour inside several outer contours of its glyph is
\* added to one triangulation only.
C14_HoleInOneOuterOnly ==
    \A j \in 1..Len(cdtLog) : \A cm \in 1..Len(GlyphAt(j).contours) :
        Cardinality({k \in 1..Len(cdtLog[j]) : cm \in HoleSet(cdtLog[j][k])}) <= 1

\* contour cm of glyph g has hole direction and lies inside no outer contour
IsOrphanHole(g, cm) ==
    /\ ~g.contours[cm].direction
    /\ \A c \in 1..Len(g.contours) :
          ~(c # cm /\ g.contours[c].direction /\ <<cm, c>> \in g.inside)

\* glyph g has a hole-direction contour that lies inside no outer contour
HasOrphanHole(g) == \E cm \in 1..Len(g.contours) : IsOrphanHole(g, cm)

\* C15: a hole-direction contour inside no outer contour is skipped: it is
\* no domain of a triangulation, it is added to none as a hole, none of its
\* points becomes a corner, its glyph is laid out without the run ending,
\* and every outer contour of the glyph is triangulated with its holes.
C15_OrphanHoleSkipped ==
    \A j \in 1..i :
        LET g == GlyphAt(j)
        IN  HasOrphanHole(g) =>
              /\ j <= Len(cdtLog)
              /\ \A cm \in 1..Len(g.contours) :
                    IsOrphanHole(g, cm) =>
                      /\ \A k \in 1..Len(cdtLog[j]) :
                            cdtLog[j][k].outer # cm /\ cm \notin HoleSet(cdtLog[j][k])
                      /\ \A t \in 1..Len(MeshBeforeNormalization[j]) :
                            \A v \in Corners(MeshBeforeNormalization[j][t]) :
                                ~IsImageOf(v, [contours |-> <<g.contours[cm]>>], cursors[j])
              /\ \A c \in 1..Len(g.contours) :
                    g.contours[c].direction =>
                      \E k \in 1..Len(cdtLog[j]) :
                          /\ cdtLog[j][k].outer = c
                          /\ HoleSet(cdtLog[j][k]) =
                                {cm \in 1..Len(g.contours) :
                                    /\ cm # c
                                    /\ ~g.contours[cm].direction
                                    /\ <<cm, c>> \in g.inside}
              /\ MeshBeforeNormalization[j] # <<>>

\* "@", whose contour 5 is such a contour, was laid out and the character
\* after it was reached
C15_Witness ==
    /\ pc = "loop"
    /\ i = 2
    /\ Len(cdtLog) = 2
    /\ IndexAt(1) = 6
    /\ Len(cdtLog[1]) = 2

\* the kerning of the face for the characters j and j + 1 of the call
PairKerning(j) ==
    IF hasKerning THEN Shr6(FT_Get_Kerning(IndexAt(j), IndexAt(j + 1))) ELSE 0

\* C16: within one call the cursor starts at 0, and the x-offset of
\* character j + 1 is the x-offset of character j plus the advance of j
\* plus the kerning of the pair plus a nudge of -1, 0 or +1.
C16_CursorRecurrence ==
    /\ (pc = "loop" /\ i = 0) => offset = 0
    /\ \A j \in 1..(Len(cursors) - 1) :
          cursors[j + 1] - (cursors[j] + Shr6(GlyphAt(j).advance) + PairKerning(j))
              \in {-1, 0, 1}
    /\ (pc = "loop" /\ i >= 1 /\ Len(cursors) = i) =>
          offset = cursors[i] + Shr6(GlyphAt(i).advance)

\* two characters were laid out, the second moved left by kerning and
\* moved again by a nudge
C16_Witness ==
    /\ Len(cursors) = 2
    /\ PairKerning(1) # 0
    /\ cursors[2] # cursors[1] + Shr6(GlyphAt(1).advance) + PairKerning(1)


\* the loads under way: load tasks enqueued or running, and load callbacks
\* not yet run
LoadsInFlight ==
    Cardinality({k \in 1..Len(poolQueue) : poolQueue[k].kind = "load"})
    + Cardinality({task \in running : task.kind = "load"})
    + Cardinality({k \in 1..Len(dispatchQueue) : dispatchQueue[k].kind = "loaded"})

\* C17: whatever hardware_concurrency() returned, 0, 1 and 2 included, the
\* pool has max(3, hardware_concurrency) - 1 workers, which is at least 2;
\* while a load task holds a worker there is another worker for the tasks
\* it enqueues.
C17_PoolHasTwoWorkers ==
    /\ poolSize >= 2
    /\ hardwareConcurrency <= 3 => poolSize = 2
    /\ hardwareConcurrency > 3 => poolSize = hardwareConcurrency - 1
    /\ Cardinality(running) <= poolSize
    /\ poolSize - Cardinality({task \in running : task.kind = "load"}) >= 1

\* hardware_concurrency() returned 0, and a load task and its nested task
\* are running on two workers at once
C17_Witness ==
    /\ hardwareConcurrency = 0
    /\ \E task \in running : \E nested \in running :
          task.kind = "load" /\ nested.kind = "nested" /\ nested.id = task.id

\* C18: at most one load is under way, and one is exactly while
\* mGeometryInProgress is set; an openFile made then enqueues nothing and
\* leaves mGeometry, mGeometryInProgress, mGeometryFileName, the command
\* manager and the progress indicator as they are; a completion callback
\* installs the geometry made by the openFile that enqueued it.
C18_OneLoadInFlight ==
    /\ [](/\ LoadsInFlight <= 1
          /\ LoadsInFlight = 1 <=> mGeometryInProgress # nullptr
          /\ installed.geometry = installed.origin
          /\ installed.geometry # nullptr => installed.geometry \in loadFinished)
    /\ [][(/\ uiEvents' # uiEvents
           /\ lastCall'.handler \in {"openFile", "fileDrop"}
           /\ mGeometryInProgress # nullptr)
          => UNCHANGED <<mGeometry, mGeometryInProgress, mGeometryFileName,
                         mCommandManager, mProgressIndicator, poolQueue, running,
                         dispatchQueue>>]_vars

\* the second of two openFile calls was refused, and then the callback of
\* the first installed its geometry
C18_Witness ==
    /\ uiEvents = 2
    /\ lastCall.handler = "openFile"
    /\ lastCall.refused
    /\ installed.geometry = 2
    /\ mGeometry = 2
    /\ mGeometryInProgress = nullptr

\* the path geometry g is being opened from, while its load is under way
OpenedPath(g) ==
    LET inQueue  == {poolQueue[k].path : k \in {n \in 1..Len(poolQueue) :
                        poolQueue[n].kind = "load" /\ poolQueue[n].geometry = g}}
        onWorker == {task.path : task \in {t \in running :
                        t.kind = "load" /\ t.geometry = g}}
        posted   == {dispatchQueue[k].path : k \in {n \in 1..Len(dispatchQueue) :
                        dispatchQueue[n].kind = "loaded" /\ dispatchQueue[n].origin = g}}
    IN  inQueue \cup onWorker \cup posted

C20_SkipOnlyWhileUnfocused ==
    /\ mShouldSkipDraw => ~mIsFocused
    /\ lastDraw = "skipped" => ~mIsFocused

\* the window lost the focus, was seen obscured, and a draw was skipped
C20_Witness ==
    /\ mShouldSkipDraw
    /\ lastDraw = "skipped"
    /\ frameRate = 2

=============================================================================
